---- MODULE Spec2Model ----
(***************************************************************************)
(* Model of script.py: the batch extractor that copies the JPEG members of *)
(* Google Photos zip archives into one merged destination tree.            *)
(*                                                                         *)
(* Strings are sequences of one-character strings, so that lower-casing,   *)
(* stem/suffix splitting, integer formatting and comparison are computed   *)
(* and not assumed.  A path is a sequence of components.                   *)
(***************************************************************************)
EXTENDS Integers, Sequences, FiniteSets, TLC

(***************************************************************************)
(* Bounds of the model.                                                    *)
(***************************************************************************)
\* largest number of directory entries in the source directory
MaxZips == 3
\* largest number of environment I/O failures injected in one run
MaxFaults == 1

(***************************************************************************)
(* Characters and strings.                                                 *)
(***************************************************************************)
\* the characters that occur in the model, in code point order
Alphabet ==
    << " ", ".", "0", "1", "2", "3", "4", "5", "6", "7", "8", "9",
       "A", "D", "E", "G", "J", "O", "P", "T", "Z", "_",
       "a", "b", "c", "d", "e", "g", "h", "i", "j", "k", "l", "n", "o",
       "p", "r", "s", "t", "u", "x", "z" >>

Ord(c) == CHOOSE i \in DOMAIN Alphabet : Alphabet[i] = c

\* str.lower() on one character
LowerChar(c) ==
    CASE c = "A" -> "a" [] c = "D" -> "d" [] c = "E" -> "e" [] c = "G" -> "g"
      [] c = "J" -> "j" [] c = "O" -> "o" [] c = "P" -> "p" [] c = "T" -> "t"
      [] c = "Z" -> "z"
      [] OTHER -> c

\* str.lower()
Lower(s) == [i \in DOMAIN s |-> LowerChar(s[i])]

\* the builtin order of str: lexicographic by code point
RECURSIVE StrLess(_, _)
StrLess(a, b) ==
    IF b = << >> THEN FALSE
    ELSE IF a = << >> THEN TRUE
    ELSE IF Head(a) = Head(b) THEN StrLess(Tail(a), Tail(b))
    ELSE Ord(Head(a)) < Ord(Head(b))

\* str(counter) inside the f-string
RECURSIVE IntToStr(_)
IntToStr(n) ==
    IF n < 10 THEN << Alphabet[n + 3] >>
    ELSE IntToStr(n \div 10) \o << Alphabet[(n % 10) + 3] >>

\* str.rfind('.') as a 1-based index, 0 when there is no dot
RFindDot(name) ==
    IF \E i \in DOMAIN name : name[i] = "."
    THEN CHOOSE i \in DOMAIN name :
            /\ name[i] = "."
            /\ \A j \in DOMAIN name : name[j] = "." => j <= i
    ELSE 0

\* PurePath.suffix
Suffix(name) ==
    LET i == RFindDot(name)
    IN  IF 1 < i /\ i < Len(name) THEN SubSeq(name, i, Len(name)) ELSE << >>

\* PurePath.stem
Stem(name) ==
    LET i == RFindDot(name)
    IN  IF 1 < i /\ i < Len(name) THEN SubSeq(name, 1, i - 1) ELSE name

(***************************************************************************)
(* sorted(..., key=...): a stable sort, so elements with equal keys keep   *)
(* the order they had in the input.                                        *)
(***************************************************************************)
\* insertion of the pair x = <<key, value>> after every pair whose key is
\* not greater
RECURSIVE InsertByKey(_, _)
InsertByKey(x, s) ==
    IF s = << >> THEN << x >>
    ELSE IF StrLess(x[1], Head(s)[1]) THEN << x >> \o s
    ELSE << Head(s) >> \o InsertByKey(x, Tail(s))

RECURSIVE SortPairs(_)
SortPairs(s) ==
    IF s = << >> THEN << >>
    ELSE InsertByKey(s[Len(s)], SortPairs(SubSeq(s, 1, Len(s) - 1)))

\* keys[i] is the key of s[i]
SortedByKey(s, keys) ==
    LET sorted == SortPairs([i \in DOMAIN s |-> << keys[i], s[i] >>])
    IN  [i \in DOMAIN s |-> sorted[i][2]]

(***************************************************************************)
(* Paths.  Path(member.filename).parts splits the name at "/" and drops    *)
(* empty and "." components; ".." components are kept.                     *)
(***************************************************************************)
Dot == << "." >>
DotDot == << ".", "." >>

\* the marker folder name "Google Photos" of lines 52 and 60
GooglePhotos == << "G", "o", "o", "g", "l", "e", " ", "P", "h", "o", "t", "o", "s" >>

\* the accepted extensions of line 56
JpegSuffixes == { << ".", "j", "p", "g" >>, << ".", "j", "p", "e", "g" >> }

\* the pattern "*.zip" of line 39
ZipSuffix == << ".", "z", "i", "p" >>

\* PurePath.parts
Parts(filename) == SelectSeq(filename, LAMBDA c : c # << >> /\ c # Dot)

\* tuple.index(x): the first position of x
IndexOf(parts, x) ==
    CHOOSE i \in DOMAIN parts :
        /\ parts[i] = x
        /\ \A j \in DOMAIN parts : parts[j] = x => i <= j

\* the root of the file system, and the resolved destination directory
Root == << >>
dest_dir == << << "o", "u", "t" >> >>

Parent(path) == IF path = Root THEN Root ELSE SubSeq(path, 1, Len(path) - 1)

\* the file the operating system reaches by following the components of rel
\* from the directory at
RECURSIVE Resolve(_, _)
Resolve(at, rel) ==
    IF rel = << >> THEN at
    ELSE IF Head(rel) = DotDot THEN Resolve(Parent(at), Tail(rel))
    ELSE Resolve(Append(at, Head(rel)), Tail(rel))

\* Path.exists(): a file or a directory is there
Exists(path, fs, ds) == path \in DOMAIN fs \/ path \in ds

\* Path.mkdir(parents=True, exist_ok=True) of at joined with rel: every missing
\* directory on the way is created; a regular file on the way is an error
RECURSIVE MkdirParents(_, _, _, _)
MkdirParents(at, rel, fs, ds) ==
    IF rel = << >> THEN [ok |-> TRUE, dirs |-> ds, folder |-> at]
    ELSE IF Head(rel) = DotDot THEN MkdirParents(Parent(at), Tail(rel), fs, ds)
    ELSE IF Append(at, Head(rel)) \in DOMAIN fs
         THEN [ok |-> FALSE, dirs |-> ds, folder |-> at]
    ELSE MkdirParents(Append(at, Head(rel)), Tail(rel), fs,
                      ds \cup {Append(at, Head(rel))})

(***************************************************************************)
(* The decisions main takes for one archive member.                        *)
(***************************************************************************)
\* a filter that compares the extension as it is spelled
EligibleExactSuffix(member) ==
    LET member_path == Parts(member.filename)
    IN  /\ ~member.is_dir
        /\ \E i \in DOMAIN member_path : member_path[i] = GooglePhotos
        /\ Suffix(member_path[Len(member_path)]) \in JpegSuffixes

\* lines 46-57: the member passes the three filters
Eligible(member) ==
    LET member_path == Parts(member.filename)
    IN  /\ ~member.is_dir
        /\ \E i \in DOMAIN member_path : member_path[i] = GooglePhotos
        /\ Lower(Suffix(member_path[Len(member_path)])) \in JpegSuffixes

\* lines 60-61: the folders after the marker and before the file name
Subfolders(member) ==
    LET member_path == Parts(member.filename)
        gp_index    == IndexOf(member_path, GooglePhotos)
    IN  SubSeq(member_path, gp_index + 1, Len(member_path) - 1)

\* line 68
Filename(member) ==
    LET member_path == Parts(member.filename)
    IN  member_path[Len(member_path)]

\* line 73: the next candidate is built from the stem and the suffix of the
\* candidate that was found to exist
NextCandidate(name, counter) ==
    Stem(name) \o << "_" >> \o IntToStr(counter) \o Suffix(name)

\* a resolver that does not look at the disk
FinalNameNoCheck(target_folder, name, counter, fs, ds) == name

\* lines 69-74: the first candidate name that does not exist in target_folder
RECURSIVE FinalName(_, _, _, _, _)
FinalName(target_folder, name, counter, fs, ds) ==
    IF Exists(Append(target_folder, name), fs, ds)
    THEN FinalName(target_folder, NextCandidate(name, counter), counter + 1, fs, ds)
    ELSE name

(***************************************************************************)
(* The inputs of a run: what the source directory holds, and what each     *)
(* archive holds.  A member is its name (split at "/"), whether it is a    *)
(* directory entry, and an identifier of its bytes.                        *)
(***************************************************************************)
Takeout == << "T", "a", "k", "e", "o", "u", "t" >>
Other == << "O", "t", "h", "e", "r" >>
Trip == << "T" >>
p_jpg == << "p", ".", "j", "p", "g" >>
p_1_jpg == << "p", "_", "1", ".", "j", "p", "g" >>

Member(filename, is_dir, data) ==
    [filename |-> filename, is_dir |-> is_dir, data |-> data]

\* a.zip: a directory entry, a photo, and a photo outside the marker folder
zip_a == << "a", ".", "z", "i", "p" >>
members_a ==
    << Member(<< Takeout, GooglePhotos, Trip >>, TRUE, "a1"),
       Member(<< Takeout, GooglePhotos, Trip, p_jpg >>, FALSE, "a2"),
       Member(<< Takeout, Dot, Other, p_jpg >>, FALSE, "a3") >>

\* A.zip: the same photo name twice, and a marker in the wrong letter case
zip_A == << "A", ".", "z", "i", "p" >>
members_A ==
    << Member(<< GooglePhotos, Trip, p_jpg >>, FALSE, "A1"),
       Member(<< Lower(GooglePhotos), Trip, << "x", ".", "j", "p", "g" >> >>, FALSE, "A2"),
       Member(<< GooglePhotos, Trip, p_jpg >>, FALSE, "A3") >>

\* D.zip: a photo right under the marker with an upper-case extension, a
\* colliding photo, and a file that is not a JPEG
zip_D == << "D", ".", "z", "i", "p" >>
members_D ==
    << Member(<< GooglePhotos, << "r", ".", "J", "P", "E", "G" >> >>, FALSE, "D1"),
       Member(<< GooglePhotos, Trip, p_jpg >>, FALSE, "D2"),
       Member(<< GooglePhotos, Trip, << "n", ".", "p", "n", "g" >> >>, FALSE, "D3") >>

\* c.zip: a ".." component after the marker, a folder named like a photo,
\* and the marker twice
zip_c == << "c", ".", "z", "i", "p" >>
members_c ==
    << Member(<< GooglePhotos, DotDot, << "e", ".", "j", "p", "g" >> >>, FALSE, "c1"),
       Member(<< GooglePhotos, Trip, p_jpg, << "b", ".", "j", "p", "g" >> >>, FALSE, "c2"),
       Member(<< GooglePhotos, GooglePhotos, p_jpg >>, FALSE, "c3") >>

\* bad.zip is not a zip container; n.txt is not matched by the pattern
zip_bad == << "b", "a", "d", ".", "z", "i", "p" >>
n_txt == << "n", ".", "t", "x", "t" >>

SourceNames == { zip_a, zip_A, zip_D, zip_c, zip_bad, n_txt }

\* zipfile.ZipFile(zip_path, 'r') raises BadZipFile for these
IsBadZip(name) == name = zip_bad

\* zf.infolist()
Infolist(name) ==
    CASE name = zip_a -> members_a
      [] name = zip_A -> members_A
      [] name = zip_D -> members_D
      [] name = zip_c -> members_c
      [] OTHER -> << >>

\* the orders in which the operating system may list a directory
Listings ==
    UNION { { s \in [1..n -> SourceNames] :
                \A i, j \in 1..n : s[i] = s[j] => i = j } : n \in 0..MaxZips }

\* the bytes of a file on disk
Content(data, complete) == [data |-> data, complete |-> complete]

\* what the destination may hold before the run
PreExisting ==
    { << >>,
      (<< dest_dir[1], Trip, p_jpg >> :> Content("old", TRUE)),
      (<< dest_dir[1], Trip, p_1_jpg >> :> Content("old", TRUE)) }

\* the directories above the files of fs
RECURSIVE Ancestors(_)
Ancestors(path) ==
    IF path = Root THEN { Root } ELSE { Parent(path) } \cup Ancestors(Parent(path))

DirsOf(fs) == UNION { Ancestors(path) : path \in DOMAIN fs } \cup { Root }

(***************************************************************************)
(* State.                                                                  *)
(***************************************************************************)
VARIABLES
    pc,               \* position of main: start, loop, members, done, exit
    argc,             \* len(sys.argv)
    source_state,     \* source_dir is a directory, missing, or unreadable
    listing,          \* the names in source_dir, in the order the OS lists them
    zips,             \* the sequence the for loop of line 39 iterates
    zi,               \* position of that loop
    mi,               \* position of the loop of line 44
    files,            \* regular files on disk: resolved path -> content
    dirs,             \* directories on disk
    successful_zips,
    skipped_zips,
    summary,          \* the two lists the summary prints
    exitcode,         \* exit status, -1 while running
    written,          \* history: the members copied so far, with their paths
    raised,           \* history: the exceptions caught so far
    faults,           \* number of I/O failures injected so far
    files0            \* the files on disk before the run

vars == << pc, argc, source_state, listing, zips, zi, mi, files, dirs,
           successful_zips, skipped_zips, summary, exitcode, written, raised,
           faults, files0 >>

Init ==
    /\ pc = "start"
    /\ argc \in {2, 3}
    /\ source_state \in {"dir", "missing", "unreadable"}
    /\ listing \in Listings
    /\ source_state = "missing" => listing = << >>
    /\ files \in PreExisting
    /\ argc # 3 => source_state = "dir" /\ listing = << >> /\ files = << >>
    /\ files0 = files
    /\ dirs = DirsOf(files)
    /\ zips = << >>
    /\ zi = 0
    /\ mi = 0
    /\ successful_zips = << >>
    /\ skipped_zips = << >>
    /\ summary = [ok |-> << >>, skipped |-> << >>, printed |-> FALSE]
    /\ exitcode = -1
    /\ written = << >>
    /\ raised = << >>
    /\ faults = 0

(***************************************************************************)
(* Operations.                                                             *)
(***************************************************************************)
\* fnmatch of a name against "*.zip"
MatchesZip(name) ==
    /\ Len(name) >= Len(ZipSuffix)
    /\ SubSeq(name, Len(name) - Len(ZipSuffix) + 1, Len(name)) = ZipSuffix

\* a listing that never looks at the state of the directory
GlobNoCheck(state, names) == SelectSeq(names, MatchesZip)

\* source_dir.glob("*.zip"): the matching names in listing order; nothing,
\* and no error, when source_dir is not a directory or cannot be listed
Glob(state, names) ==
    IF state = "dir" THEN SelectSeq(names, MatchesZip) ELSE << >>

\* line 39: key=lambda p: p.name.lower()
ZipKey(name) == Lower(name)

\* a summary sorted by the names as they are
SummaryKeyRaw(name) == name

\* line 94: key=str.lower
SummaryKey(name) == Lower(name)

\* open(final_path, "wb") followed by the copy: the file holds the new bytes
WriteFile(fs, path, content) ==
    [q \in DOMAIN fs \cup {path} |-> IF q = path THEN content ELSE fs[q]]

\* the archive and the member the loops are at
zip_name == zips[zi]
member == Infolist(zip_name)[mi]

\* lines 25-27: wrong number of arguments
Usage ==
    /\ pc = "start"
    /\ argc # 3
    /\ pc' = "exit"
    /\ exitcode' = 1
    /\ UNCHANGED << argc, source_state, listing, zips, zi, mi, files, dirs,
                    successful_zips, skipped_zips, summary, written, raised,
                    faults, files0 >>

\* lines 29-39: the destination directory is created and the archives are
\* listed and sorted
Start ==
    /\ pc = "start"
    /\ argc = 3
    /\ dirs' = dirs \cup {dest_dir}
    /\ LET found == Glob(source_state, listing)
       IN  zips' = SortedByKey(found, [i \in DOMAIN found |-> ZipKey(found[i])])
    /\ zi' = 1
    /\ pc' = "loop"
    /\ UNCHANGED << argc, source_state, listing, mi, files, successful_zips,
                    skipped_zips, summary, exitcode, written, raised, faults,
                    files0 >>

\* a handler that ends the for loop
ExceptAbort(idx, kind, fs, ds) ==
    /\ skipped_zips' = Append(skipped_zips, zip_name)
    /\ raised' = Append(raised, [zip |-> zip_name, idx |-> idx, kind |-> kind])
    /\ files' = fs
    /\ dirs' = ds
    /\ zi' = Len(zips) + 1
    /\ mi' = 0
    /\ pc' = "loop"
    /\ UNCHANGED << successful_zips, summary, exitcode >>

\* a handler that removes what the failed archive had written
ExceptRollback(idx, kind, fs, ds) ==
    /\ skipped_zips' = Append(skipped_zips, zip_name)
    /\ raised' = Append(raised, [zip |-> zip_name, idx |-> idx, kind |-> kind])
    /\ files' = [q \in DOMAIN fs \ { written[i].path :
                                       i \in { k \in DOMAIN written :
                                                 written[k].zip = zip_name } }
                   |-> fs[q]]
    /\ dirs' = ds
    /\ zi' = zi + 1
    /\ mi' = 0
    /\ pc' = "loop"
    /\ UNCHANGED << successful_zips, summary, exitcode >>

\* lines 83-88: either handler records the archive as skipped and the for
\* loop goes on with the next archive; fs and ds are the disk as the failed
\* statement left it
Except(idx, kind, fs, ds) ==
    /\ skipped_zips' = Append(skipped_zips, zip_name)
    /\ raised' = Append(raised, [zip |-> zip_name, idx |-> idx, kind |-> kind])
    /\ files' = fs
    /\ dirs' = ds
    /\ zi' = zi + 1
    /\ mi' = 0
    /\ pc' = "loop"
    /\ UNCHANGED << successful_zips, summary, exitcode >>

\* line 42, the archive opens
OpenZip ==
    /\ pc = "loop"
    /\ zi <= Len(zips)
    /\ ~IsBadZip(zip_name)
    /\ pc' = "members"
    /\ mi' = 1
    /\ UNCHANGED << argc, source_state, listing, zips, zi, files, dirs,
                    successful_zips, skipped_zips, summary, exitcode, written,
                    raised, faults, files0 >>

\* line 42 raises BadZipFile
OpenBadZip ==
    /\ pc = "loop"
    /\ zi <= Len(zips)
    /\ IsBadZip(zip_name)
    /\ Except(0, "BadZipFile", files, dirs)
    /\ UNCHANGED << argc, source_state, listing, zips, written, faults, files0 >>

\* lines 46-57: a directory entry or a member that fails a filter
MemberSkip ==
    /\ pc = "members"
    /\ mi <= Len(Infolist(zip_name))
    /\ ~Eligible(member)
    /\ mi' = mi + 1
    /\ UNCHANGED << pc, argc, source_state, listing, zips, zi, files, dirs,
                    successful_zips, skipped_zips, summary, exitcode, written,
                    raised, faults, files0 >>

\* lines 59-78: an eligible member is copied to a path that did not exist
MemberExtract ==
    /\ pc = "members"
    /\ mi <= Len(Infolist(zip_name))
    /\ Eligible(member)
    /\ LET mk         == MkdirParents(dest_dir, Subfolders(member), files, dirs)
           name       == FinalName(mk.folder, Filename(member), 1, files, mk.dirs)
           final_path == Append(mk.folder, name)
       IN  /\ mk.ok
           /\ dirs' = mk.dirs
           /\ files' = WriteFile(files, final_path, Content(member.data, TRUE))
           /\ written' = Append(written, [zip |-> zip_name, idx |-> mi,
                                          path |-> final_path])
    /\ mi' = mi + 1
    /\ UNCHANGED << pc, argc, source_state, listing, zips, zi, successful_zips,
                    skipped_zips, summary, exitcode, raised, faults, files0 >>

\* line 65 raises because a regular file is where a folder is needed
MemberMkdirConflict ==
    /\ pc = "members"
    /\ mi <= Len(Infolist(zip_name))
    /\ Eligible(member)
    /\ LET mk == MkdirParents(dest_dir, Subfolders(member), files, dirs)
       IN  /\ ~mk.ok
           /\ Except(mi, "FileExistsError", files, mk.dirs)
    /\ UNCHANGED << argc, source_state, listing, zips, written, faults, files0 >>

\* lines 65-78 raise because of the environment: the folder cannot be
\* created ("mkdir"), the member or the output file cannot be opened
\* ("open"), or the copy stops part way ("copy") and leaves a partial file
MemberFault(kind) ==
    /\ pc = "members"
    /\ mi <= Len(Infolist(zip_name))
    /\ Eligible(member)
    /\ faults < MaxFaults
    /\ faults' = faults + 1
    /\ LET mk         == MkdirParents(dest_dir, Subfolders(member), files, dirs)
           name       == FinalName(mk.folder, Filename(member), 1, files, mk.dirs)
           final_path == Append(mk.folder, name)
       IN  CASE kind = "mkdir" -> Except(mi, "OSError", files, dirs)
             [] kind = "open" -> mk.ok /\ Except(mi, "OSError", files, mk.dirs)
             [] kind = "copy" ->
                    /\ mk.ok
                    /\ Except(mi, "OSError",
                              WriteFile(files, final_path, Content(member.data, FALSE)),
                              mk.dirs)
    /\ UNCHANGED << argc, source_state, listing, zips, written, files0 >>

MemberMkdirFault == MemberFault("mkdir")
MemberOpenFault == MemberFault("open")
MemberCopyFault == MemberFault("copy")

\* line 81: the member loop ended without an exception
EndZip ==
    /\ pc = "members"
    /\ mi > Len(Infolist(zip_name))
    /\ successful_zips' = Append(successful_zips, zip_name)
    /\ zi' = zi + 1
    /\ mi' = 0
    /\ pc' = "loop"
    /\ UNCHANGED << argc, source_state, listing, zips, files, dirs,
                    skipped_zips, summary, exitcode, written, raised, faults,
                    files0 >>

\* lines 90-104: the summary, and the normal end of the process
Summary ==
    /\ pc = "loop"
    /\ zi > Len(zips)
    /\ summary' = [ok |-> SortedByKey(successful_zips,
                                      [i \in DOMAIN successful_zips |->
                                          SummaryKey(successful_zips[i])]),
                   skipped |-> skipped_zips,
                   printed |-> TRUE]
    /\ exitcode' = 0
    /\ pc' = "done"
    /\ UNCHANGED << argc, source_state, listing, zips, zi, mi, files, dirs,
                    successful_zips, skipped_zips, written, raised, faults,
                    files0 >>

Next ==
    \/ Usage
    \/ Start
    \/ OpenZip
    \/ OpenBadZip
    \/ MemberSkip
    \/ MemberExtract
    \/ MemberMkdirConflict
    \/ MemberMkdirFault
    \/ MemberOpenFault
    \/ MemberCopyFault
    \/ EndZip
    \/ Summary

Spec == Init /\ [][Next]_vars

TypeOK ==
    /\ pc \in {"start", "loop", "members", "done", "exit"}
    /\ exitcode \in {-1, 0, 1}
    /\ faults \in 0..MaxFaults

(***************************************************************************)
(* Vocabulary of the properties.                                           *)
(***************************************************************************)
Range(s) == { s[i] : i \in DOMAIN s }

Last(s) == s[Len(s)]

\* path lies inside the tree below folder
IsUnder(folder, path) ==
    /\ Len(path) > Len(folder)
    /\ SubSeq(path, 1, Len(folder)) = folder

\* the member a history record is about
MemberOf(rec) == Infolist(rec.zip)[rec.idx]

\* the eligible members of an archive, as positions of its member list
EligibleIdx(name) ==
    { m \in DOMAIN Infolist(name) : Eligible(Infolist(name)[m]) }

\* the archives of the batch that are not zip containers
BadZips == { k \in DOMAIN zips : IsBadZip(zips[k]) }

\* every file that is on disk before a step is on disk after it, unchanged
FilesKept ==
    \A path \in DOMAIN files : path \in DOMAIN files' /\ files'[path] = files[path]

(***************************************************************************)
(* C1: each extraction writes to a path at which nothing existed: no file  *)
(* that was there before the run or written earlier in the run is ever     *)
(* overwritten or removed, and the members copied so far, colliding ones   *)
(* included, are on disk under pairwise distinct paths, each with its own  *)
(* bytes.                                                                  *)
(***************************************************************************)
C1_NoOverwrite ==
    /\ [][FilesKept]_vars
    /\ [](/\ \A path \in DOMAIN files0 :
                path \in DOMAIN files /\ files[path] = files0[path]
          /\ \A i \in DOMAIN written :
                /\ written[i].path \notin DOMAIN files0
                /\ written[i].path \in DOMAIN files
                /\ files[written[i].path] = Content(MemberOf(written[i]).data, TRUE)
                /\ \A j \in DOMAIN written : written[j].path = written[i].path => i = j)

\* two members with the same target folder and file name have been copied
\* into a destination that held a file of that name before the run
C1_Witness ==
    /\ files0 # << >>
    /\ \E i, j \in DOMAIN written :
          /\ i < j
          /\ Parent(written[i].path) = Parent(written[j].path)
          /\ Filename(MemberOf(written[i])) = Filename(MemberOf(written[j]))
          /\ Append(Parent(written[i].path), Filename(MemberOf(written[i])))
                \in DOMAIN files0

(***************************************************************************)
(* C2: in an initially empty destination the k-th further member (k >= 1)  *)
(* that resolves to the same target folder and file name stem.ext is       *)
(* stored as stem_k.ext.  Stated for the runs without an I/O failure and   *)
(* for names that no folder occupies, where members are the only source of *)
(* collisions.                                                             *)
(***************************************************************************)
C2_AscendingSuffix ==
    (files0 = << >> /\ faults = 0) =>
        \A j \in DOMAIN written :
            LET fn     == Filename(MemberOf(written[j]))
                folder == Parent(written[j].path)
                k      == Cardinality({ i \in 1..(j - 1) :
                              /\ Parent(written[i].path) = folder
                              /\ Filename(MemberOf(written[i])) = fn })
            IN  Append(folder, fn) \notin dirs =>
                    Last(written[j].path) =
                        IF k = 0 THEN fn
                        ELSE Stem(fn) \o << "_" >> \o IntToStr(k) \o Suffix(fn)

(***************************************************************************)
(* C3: when every archive of the batch is a zip container, the destination *)
(* tree holds after the run exactly N files more than before, N the number *)
(* of eligible members, and every archive is listed as successful.  Stated *)
(* for the runs in which no exception is caught.                           *)
(***************************************************************************)
C3_AllExtracted ==
    (pc = "done" /\ BadZips = { } /\ raised = << >>) =>
        LET N == Cardinality(UNION { { << k, m >> : m \in EligibleIdx(zips[k]) } :
                                        k \in DOMAIN zips })
        IN  /\ Cardinality({ path \in DOMAIN files : IsUnder(dest_dir, path) })
                 = Cardinality({ path \in DOMAIN files0 : IsUnder(dest_dir, path) }) + N
            /\ Range(successful_zips) = Range(zips)

(***************************************************************************)
(* C4: with exactly one corrupt archive in the batch, the skipped list is  *)
(* that archive alone, every other archive is listed as successful and     *)
(* every eligible member of every other archive has been copied.           *)
(***************************************************************************)
OthersComplete ==
    /\ skipped_zips = [i \in 1..1 |-> zips[CHOOSE k \in BadZips : TRUE]]
    /\ Range(successful_zips) = Range(zips) \ { zips[k] : k \in BadZips }
    /\ Len(successful_zips) = Len(zips) - 1
    /\ \A k \in DOMAIN zips \ BadZips : \A m \in EligibleIdx(zips[k]) :
          \E i \in DOMAIN written :
             /\ written[i].zip = zips[k]
             /\ written[i].idx = m
             /\ written[i].path \in DOMAIN files
             /\ files[written[i].path] = Content(Infolist(zips[k])[m].data, TRUE)

C5_SummaryOrder ==
    pc = "done" =>
        /\ summary.printed
        /\ \A i, j \in DOMAIN summary.ok :
              i < j => ~StrLess(Lower(summary.ok[j]), Lower(summary.ok[i]))
        /\ Len(summary.ok) = Len(successful_zips)
        /\ Range(summary.ok) = Range(successful_zips)
        /\ summary.skipped = [i \in DOMAIN raised |-> raised[i].zip]
        /\ \A i, j \in DOMAIN summary.skipped :
              summary.skipped[i] = summary.skipped[j] => i = j

\* two successes whose order by code point differs from their order by
\* lower-cased name, and a skip
C5_Witness ==
    /\ pc = "done"
    /\ summary.ok = << zip_a, zip_D >>
    /\ Len(summary.skipped) >= 1

(***************************************************************************)
(* C6: the processing order depends on the set of names in the source      *)
(* directory only: every order in which the operating system could have    *)
(* listed the same names leads to the sequence the run iterates.           *)
(***************************************************************************)
C6_OrderDeterministic ==
    pc \notin {"start", "exit"} =>
        \A other \in Listings :
            Range(other) = Range(listing) =>
                LET found == Glob(source_state, other)
                IN  SortedByKey(found, [i \in DOMAIN found |-> ZipKey(found[i])]) = zips

(***************************************************************************)
(* C7: every file the run creates lies inside the destination tree.        *)
(***************************************************************************)
C7_UnderDestination ==
    \A path \in DOMAIN files \ DOMAIN files0 : IsUnder(dest_dir, path)

(***************************************************************************)
(* C8: when the source directory is missing or unreadable the run does not *)
(* reach the normal summary and exit status 0.                             *)
(***************************************************************************)
C8_MissingSourceFatalOriginal ==
    source_state # "dir" => ~(pc = "done" /\ exitcode = 0)

\* as amended: no archive is processed and nothing is skipped or written,
\* and the run goes on to the summary of an empty batch and exit status 0
C8_MissingSource ==
    source_state # "dir" =>
        /\ zips = << >>
        /\ successful_zips = << >>
        /\ skipped_zips = << >>
        /\ raised = << >>
        /\ written = << >>
        /\ files = files0
        /\ pc \in {"start", "loop", "done"}
        /\ pc = "loop" => ENABLED Summary
        /\ pc = "done" =>
              /\ exitcode = 0
              /\ summary = [ok |-> << >>, skipped |-> << >>, printed |-> TRUE]

\* a run over an unreadable directory that holds archives has ended
C8_Witness ==
    /\ source_state = "unreadable"
    /\ \E i \in DOMAIN listing : MatchesZip(listing[i])
    /\ pc = "done"

(***************************************************************************)
(* C9: when an archive fails at its j-th member, the handler leaves every  *)
(* file on disk as it is, appends the archive to the skipped list and not  *)
(* to the successful list, and moves on to the next archive; afterwards    *)
(* the members 1..j-1 it had copied are still on disk with their bytes,    *)
(* and no member from j on is ever copied.                                 *)
(***************************************************************************)
C9_PartialOutputKept ==
    /\ [][raised' # raised =>
            /\ FilesKept
            /\ skipped_zips' = Append(skipped_zips, zip_name)
            /\ Last(raised').zip = zip_name
            /\ successful_zips' = successful_zips
            /\ written' = written
            /\ zi' = zi + 1
            /\ pc' = "loop"]_vars
    /\ [](\A r \in DOMAIN raised :
            /\ raised[r].zip \notin Range(successful_zips)
            /\ \A w \in DOMAIN written :
                  written[w].zip = raised[r].zip =>
                     /\ written[w].idx < raised[r].idx
                     /\ written[w].path \in DOMAIN files
                     /\ files[written[w].path] = Content(MemberOf(written[w]).data, TRUE))
    /\ [](pc = "done" => Len(successful_zips) + Len(skipped_zips) = Len(zips))

\* an archive failed after it had copied a member, and a later archive was
\* processed to its end
C9_Witness ==
    /\ pc = "done"
    /\ \E r \in DOMAIN raised :
          /\ raised[r].idx >= 2
          /\ \E w \in DOMAIN written : written[w].zip = raised[r].zip
          /\ \E k \in DOMAIN zips :
                /\ zips[k] = raised[r].zip
                /\ k < Len(zips)
                /\ zips[k + 1] \in Range(successful_zips)
                /\ \E w \in DOMAIN written : written[w].zip = zips[k + 1]

(***************************************************************************)
(* C10: a member that has been processed without an error has been copied  *)
(* if and only if it is not a directory entry, some component of its path  *)
(* is exactly "Google Photos" and the lower-cased extension of its file    *)
(* name is .jpg or .jpeg; it was then copied into the destination root     *)
(* joined with the components strictly between the first marker component  *)
(* and the file name.  Errors are raised by eligible members only.         *)
(***************************************************************************)
\* the member m of the k-th archive has been processed
Processed(k, m) ==
    /\ k < zi \/ (k = zi /\ pc = "members" /\ m < mi)
    /\ \A r \in DOMAIN raised : raised[r].zip = zips[k] => m < raised[r].idx

\* the member is a file below a marker folder with a JPEG extension
IsPhoto(mem) ==
    LET parts == Parts(mem.filename)
    IN  /\ ~mem.is_dir
        /\ GooglePhotos \in Range(parts)
        /\ \/ Lower(Suffix(Last(parts))) = << ".", "j", "p", "g" >>
           \/ Lower(Suffix(Last(parts))) = << ".", "j", "p", "e", "g" >>

\* the components strictly between the first marker and the file name
Between(mem) ==
    LET parts == Parts(mem.filename)
        first == CHOOSE i \in DOMAIN parts :
                    parts[i] = GooglePhotos /\ \A j \in 1..(i - 1) : parts[j] # GooglePhotos
    IN  [i \in 1..(Len(parts) - first - 1) |-> parts[first + i]]

C10_Filter ==
    /\ \A k \in DOMAIN zips : \A m \in DOMAIN Infolist(zips[k]) :
          Processed(k, m) =>
             (IsPhoto(Infolist(zips[k])[m])
                <=> \E w \in DOMAIN written :
                       written[w].zip = zips[k] /\ written[w].idx = m)
    /\ \A w \in DOMAIN written :
          /\ IsPhoto(MemberOf(written[w]))
          /\ Parent(written[w].path) = Resolve(dest_dir, Between(MemberOf(written[w])))
    /\ \A r \in DOMAIN raised :
          raised[r].idx > 0 => IsPhoto(MemberOf(raised[r]))

\* archives with a directory entry, a path without the marker, a marker in
\* the wrong case, an upper-case extension right under the marker and a
\* file that is not a JPEG have been processed to their end
C10_Witness ==
    /\ pc = "done"
    /\ { zip_a, zip_A, zip_D } \subseteq Range(successful_zips)
    /\ \E w \in DOMAIN written :
          written[w].zip = zip_D /\ Parent(written[w].path) = dest_dir

====
